---- MODULE Spec2Model ----
(***************************************************************************)
(* A model of the RDW vehicle client (src/src/vehicle): the license plate  *)
(* normaliser, the request/response pipeline of RDW.vehicle and            *)
(* RDW._request, session ownership (close / __aexit__) and the record      *)
(* mapper of models.Vehicle.                                               *)
(*                                                                         *)
(* Strings that the code transforms character by character (plates, brand  *)
(* and model names) are sequences of one-character strings.  The           *)
(* characters "TAB" and "eszett" stand for U+0009 and U+00DF.              *)
(***************************************************************************)
EXTENDS Integers, Sequences, FiniteSets, TLC

\* ------------------------------------------------------------------------
\* Bounds
\* ------------------------------------------------------------------------

\* Longest input string given to normalize_license_plate.
MaxLen == 3

\* Number of vehicle() calls made on one client inside its scope.
MaxCalls == 2

\* Number of tasks that call vehicle() concurrently on one client.
MaxTasks == 2

\* ------------------------------------------------------------------------
\* Characters and the str methods used by the code
\* ------------------------------------------------------------------------

Chars == {"a", "B", "1", "-", " ", "TAB", "eszett"}

Whitespace == {" ", "TAB"}

Lowercase == {"a", "b", "s", "eszett"}

\* str.upper() of one character; U+00DF uppercases to the two characters SS.
UpperChar(c) ==
    CASE c = "a" -> <<"A">>
      [] c = "b" -> <<"B">>
      [] c = "s" -> <<"S">>
      [] c = "eszett" -> <<"S", "S">>
      [] OTHER -> <<c>>

RECURSIVE Upper(_)
Upper(s) == IF s = <<>> THEN <<>> ELSE UpperChar(Head(s)) \o Upper(Tail(s))

\* str.replace(ch, ""): every occurrence of the character ch removed.
RECURSIVE Remove(_, _)
Remove(s, ch) ==
    IF s = <<>> THEN <<>>
    ELSE IF Head(s) = ch THEN Remove(Tail(s), ch)
    ELSE <<Head(s)>> \o Remove(Tail(s), ch)

RECURSIVE LStrip(_)
LStrip(s) ==
    IF s # <<>> /\ Head(s) \in Whitespace THEN LStrip(Tail(s)) ELSE s

RECURSIVE RStrip(_)
RStrip(s) ==
    IF s # <<>> /\ s[Len(s)] \in Whitespace
    THEN RStrip(SubSeq(s, 1, Len(s) - 1))
    ELSE s

\* str.strip(): leading and trailing whitespace removed.
Strip(s) == RStrip(LStrip(s))

\* A plausible slip: whitespace is stripped before the hyphens and spaces are
\* removed, not after.
normalize_license_plate_wrong(plate) ==
    Remove(Remove(Strip(Upper(plate)), "-"), " ")

\* RDW.normalize_license_plate:
\*   license_plate.upper().replace("-", "").replace(" ", "").strip()
normalize_license_plate(plate) ==
    Strip(Remove(Remove(Upper(plate), "-"), " "))

\* All strings over Chars of length at most n.
StringsUpTo(n) == UNION {[1..k -> Chars] : k \in 0..n}

LowerChar(c) ==
    CASE c = "A" -> <<"a">>
      [] c = "B" -> <<"b">>
      [] c = "S" -> <<"s">>
      [] OTHER -> <<c>>

\* The title-case form of one character; U+00DF title-cases to "Ss".
TitleChar(c) == IF c = "eszett" THEN <<"S", "s">> ELSE UpperChar(c)

Cased == {"a", "A", "b", "B", "s", "S", "eszett"}

\* str.title(): a cased character is title-cased when it follows an uncased
\* character (or starts the string) and lowercased otherwise.
RECURSIVE TitleFrom(_, _)
TitleFrom(s, prevCased) ==
    IF s = <<>> THEN <<>>
    ELSE IF Head(s) \in Cased
         THEN (IF prevCased THEN LowerChar(Head(s)) ELSE TitleChar(Head(s)))
              \o TitleFrom(Tail(s), TRUE)
         ELSE <<Head(s)>> \o TitleFrom(Tail(s), FALSE)

Title(s) == TitleFrom(s, FALSE)

\* ------------------------------------------------------------------------
\* JSON values and Python values
\* ------------------------------------------------------------------------

JNull == [t |-> "null"]
JStr(s) == [t |-> "string", v |-> s]
JNum(i) == [t |-> "number", v |-> i]
JArray(items) == [t |-> "array", items |-> items]
JObject(members) == [t |-> "object", members |-> members]

PyNone == [t |-> "None"]
PyBool(b) == [t |-> "bool", v |-> b]
PyStr(s) == [t |-> "str", v |-> s]
PyInt(i) == [t |-> "int", v |-> i]
PyDate(ymd) == [t |-> "date", v |-> ymd]
PyEnum(member) == [t |-> "enum", v |-> member]

Ok(v) == [ok |-> TRUE, v |-> v]
Err(e) == [ok |-> FALSE, error |-> e]

\* ------------------------------------------------------------------------
\* Record mapper: models.Vehicle
\* ------------------------------------------------------------------------

\* field_options(alias=...): attribute name -> source key.
Alias ==
    [brand |-> "merk",
     license_plate |-> "kenteken",
     model |-> "handelsbenaming",
     apk_expiration |-> "vervaldatum_apk",
     ascription_date |-> "datum_tenaamstelling",
     ascription_possible |-> "tenaamstellen_mogelijk",
     energy_label |-> "zuinigheidslabel",
     engine_capacity |-> "cilinderinhoud",
     exported |-> "export_indicator",
     interior |-> "inrichting",
     last_odometer_registration_year |-> "jaar_laatste_registratie_tellerstand",
     liability_insured |-> "wam_verzekerd",
     list_price |-> "catalogusprijs",
     first_admission |-> "datum_eerste_toelating",
     mass_empty |-> "massa_ledig_voertuig",
     mass_driveable |-> "massa_rijklaar",
     number_of_cylinders |-> "aantal_cilinders",
     number_of_doors |-> "aantal_deuren",
     number_of_seats |-> "aantal_zitplaatsen",
     number_of_wheelchair_seats |-> "aantal_rolstoelplaatsen",
     number_of_wheels |-> "aantal_wielen",
     odometer_judgement |-> "tellerstandoordeel",
     pending_recall |-> "openstaande_terugroepactie_indicator",
     taxi |-> "taxi_indicator",
     vehicle_type |-> "voertuigsoort"]

Attrs == DOMAIN Alias

\* The declared type of each attribute.
RequiredStrAttrs == {"brand", "license_plate", "model"}
OptionalStrAttrs == {"energy_label"}
DateAttrs == {"apk_expiration", "ascription_date", "first_admission"}
BoolAttrs ==
    {"ascription_possible", "exported", "liability_insured", "pending_recall",
     "taxi"}
IntAttrs ==
    {"engine_capacity", "last_odometer_registration_year", "list_price",
     "mass_empty", "mass_driveable", "number_of_cylinders", "number_of_doors",
     "number_of_seats", "number_of_wheelchair_seats", "number_of_wheels"}
EnumAttrs == {"interior", "odometer_judgement", "vehicle_type"}

\* const.VehicleType, const.VehicleInterior, const.VehicleOdometerJudgement:
\* the values of each enumeration.
EnumValues ==
    [vehicle_type |->
        {"Aanhangwagen", "Personenauto", "Bedrijfsauto", "Bus", "Motorfiets",
         "Driewielig motorrijtuig", "Bromfiets", "Middenasaanhangwagen",
         "Land- of bosbouwtrekker", "Land- of bosb aanhw of getr uitr stuk"},
     interior |->
        {"kampeerwagen", "caravan", "closed_interior", "cabriolet", "coupe",
         "brandweerwagen", "hatchback", "veewagen", "MPV", "open laadvloer",
         "open wagen", "sedan", "stationwagen", "pick-up truck"},
     odometer_judgement |->
        {"Geen oordeel", "Logisch", "Onlogisch", "UNKNOWN"}]

\* StringIsBoolean.deserialize: value == "Ja".
StringIsBoolean_deserialize_wrong(value) == value # JStr("Nee")

StringIsBoolean_deserialize(value) == value = JStr("Ja")

\* A plausible slip: the affirmative word in another case.
StringIsBoolean_serialize_wrong(value) == IF value THEN "ja" ELSE "Nee"

\* StringIsBoolean.serialize: "Ja" if value else "Nee".
StringIsBoolean_serialize(value) == IF value THEN "Ja" ELSE "Nee"

\* datetime.strptime(value, "%Y%m%d") on the date strings of the model: the
\* strings it accepts, with the date each denotes.  %Y takes four digits, so
\* the seven digits 9990104 read as year 9990, month 10, day 4.
DateTable ==
    ("20220104" :> <<2022, 1, 4>>) @@ ("20210106" :> <<2021, 1, 6>>)
    @@ ("09990104" :> <<999, 1, 4>>) @@ ("9990104" :> <<9990, 10, 4>>)

\* DateStrategy.serialize: datetime.strftime(value, "%Y%m%d") on the dates of
\* the model.  Whether %Y pads a year below 1000 to four digits depends on
\* the C library; padded says which.
DateStrategy_serialize(ymd, padded) ==
    CASE ymd = <<2022, 1, 4>> -> "20220104"
      [] ymd = <<2021, 1, 6>> -> "20210106"
      [] ymd = <<999, 1, 4>> -> IF padded THEN "09990104" ELSE "9990104"

\* The strings int() accepts among the numeric strings of the model.
IntTable == ("999" :> 999) @@ ("4" :> 4)

\* DateStrategy.deserialize.
DateStrategy_deserialize(value) ==
    IF value.v \in DOMAIN DateTable
    THEN Ok(PyDate(DateTable[value.v]))
    ELSE Err("ValueError")

\* The sentinel strings and keys of Vehicle.__pre_deserialize__.
SentinelKeys == {"inrichting", "tellerstandoordeel", "voertuigsoort"}
Sentinels == {"Niet geregistreerd", "N.v.t."}
PrettyKeys == {"merk", "handelsbenaming"}

\* Vehicle.__pre_deserialize__: sentinel values become None, then brand and
\* model are stripped and title-cased (d[key] raises KeyError when the key is
\* absent, .strip() raises AttributeError on None).
pre_deserialize(d) ==
    LET d1 == [k \in DOMAIN d |->
                 IF k \in SentinelKeys /\ d[k].t = "string"
                    /\ d[k].v \in Sentinels
                 THEN JNull ELSE d[k]]
    IN  IF \E k \in PrettyKeys : k \notin DOMAIN d1 THEN Err("KeyError")
        ELSE IF \E k \in PrettyKeys : d1[k].t # "string"
        THEN Err("AttributeError")
        ELSE Ok([k \in DOMAIN d1 |->
                   IF k \in PrettyKeys THEN JStr(Title(Strip(d1[k].v)))
                   ELSE d1[k]])

\* The value of one attribute from the pre-processed dict, by its declared
\* type: a required field must be present; an optional field that is absent
\* takes its default None and a null value stays None; anything else goes
\* through the type's conversion.
FieldValue(d, attr) ==
    LET key == Alias[attr] IN
    IF attr \in RequiredStrAttrs
    THEN IF key \notin DOMAIN d THEN Err("MissingField")
         ELSE IF d[key].t # "string" THEN Err("InvalidFieldValue")
         ELSE Ok(PyStr(d[key].v))
    ELSE IF key \notin DOMAIN d \/ d[key] = JNull THEN Ok(PyNone)
    ELSE IF attr \in BoolAttrs
         THEN Ok(PyBool(StringIsBoolean_deserialize(d[key])))
    ELSE IF attr \in DateAttrs
         THEN (IF DateStrategy_deserialize(d[key]).ok
               THEN DateStrategy_deserialize(d[key])
               ELSE Err("InvalidFieldValue"))
    ELSE IF attr \in IntAttrs
         THEN (IF d[key].t = "number" THEN Ok(PyInt(d[key].v))
               ELSE IF d[key].v \in DOMAIN IntTable
               THEN Ok(PyInt(IntTable[d[key].v]))
               ELSE Err("InvalidFieldValue"))
    ELSE IF attr \in EnumAttrs
         THEN (IF d[key].v \in EnumValues[attr]
               THEN Ok(PyEnum(d[key].v))
               ELSE Err("InvalidFieldValue"))
    ELSE Ok(PyStr(d[key].v))

\* Vehicle.from_dict: __pre_deserialize__, then every field; the Vehicle is
\* built only when every field converted, otherwise the first failure found
\* is raised.
\* Vehicle.to_dict under Config: keys are the aliases (serialize_by_alias),
\* None stays null, a bool and a date go through their strategies, an int
\* becomes a number, a str and an enum member's value a string.
to_dict(vehicle, padded) ==
    [k \in {Alias[a] : a \in Attrs} |->
        LET a == CHOOSE x \in Attrs : Alias[x] = k
            value == vehicle[a]
        IN  CASE value.t = "None" -> JNull
              [] value.t = "bool" -> JStr(StringIsBoolean_serialize(value.v))
              [] value.t = "date" -> JStr(DateStrategy_serialize(value.v, padded))
              [] value.t = "int" -> JNum(value.v)
              [] OTHER -> JStr(value.v)]

from_dict(d) ==
    LET pre == pre_deserialize(d) IN
    IF ~pre.ok THEN pre
    ELSE IF \E a \in Attrs : ~FieldValue(pre.v, a).ok
         THEN Err(FieldValue(pre.v,
                    CHOOSE a \in Attrs : ~FieldValue(pre.v, a).ok).error)
         ELSE Ok([a \in Attrs |-> FieldValue(pre.v, a).v])

\* ------------------------------------------------------------------------
\* The environment: plates, responses and response bodies
\* ------------------------------------------------------------------------

\* Plate values a caller passes or configures: None, the empty string, a
\* plate in display form.
PlateValues == {PyNone, PyStr(<<>>), PyStr(<<"a", "-", "1">>)}

\* Response statuses the server sends.
Statuses == {200, 404, 500}

\* A Content-Type header value is the sequence of its parts (media type, then
\* parameters); the headers of a response either hold one or do not.
ContentType(parts) == "Content-Type" :> parts

HeaderSets ==
    {<<>>,
     ContentType(<<"text/plain">>),
     ContentType(<<"application/json">>),
     ContentType(<<"application/json", "charset=utf-8">>)}

\* Source objects the server returns.
VehicleA ==
    ("merk" :> JStr(<<" ", "a", "B">>))
    @@ ("handelsbenaming" :> JStr(<<"B", "a", " ", "a">>))
    @@ ("kenteken" :> JStr(<<"1", "B">>))
    @@ ("taxi_indicator" :> JStr("Nee"))
    @@ ("export_indicator" :> JStr("Ja"))
    @@ ("vervaldatum_apk" :> JStr("20220104"))
    @@ ("cilinderinhoud" :> JStr("999"))
    @@ ("inrichting" :> JStr("N.v.t."))
    @@ ("voertuigsoort" :> JStr("Personenauto"))

VehicleB ==
    ("merk" :> JStr(<<"B">>))
    @@ ("handelsbenaming" :> JStr(<<"a">>))
    @@ ("kenteken" :> JStr(<<"B", "1">>))
    @@ ("taxi_indicator" :> JStr("Ja"))
    @@ ("aantal_deuren" :> JStr("4"))

NoBrand == "kenteken" :> JStr(<<"1", "B">>)

BadDate == VehicleB @@ ("vervaldatum_apk" :> JStr("20221304"))

\* orjson.loads on the response bodies of the model: each body text with the
\* JSON value it denotes; any other text is not JSON.
JsonTable ==
    ("[]" :> JArray(<<>>))
    @@ ("[A]" :> JArray(<<VehicleA>>))
    @@ ("[A,B]" :> JArray(<<VehicleA, VehicleB>>))
    @@ ("[B,A]" :> JArray(<<VehicleB, VehicleA>>))
    @@ ("[A,NoBrand]" :> JArray(<<VehicleA, NoBrand>>))
    @@ ("[NoBrand]" :> JArray(<<NoBrand>>))
    @@ ("[BadDate,A]" :> JArray(<<BadDate, VehicleA>>))
    @@ ("{}" :> JObject(<<>>))
    @@ ("{status:ok}" :> JObject("status" :> JStr("ok")))
    @@ ("null" :> JNull)

Texts == DOMAIN JsonTable \cup {"OMG PUPPIES!", ""}

orjson_loads(text) ==
    IF text \in DOMAIN JsonTable THEN Ok(JsonTable[text])
    ELSE Err("JSONDecodeError")

\* Failures of the transport while the response is awaited, as the exception
\* aiohttp or the socket layer raises.
RequestFailures ==
    {"socket.gaierror", "ClientConnectorError", "ServerDisconnectedError"}

\* Failures of the transport while the body is read.
BodyFailures == {"ClientPayloadError", "ClientConnectionResetError"}

\* ------------------------------------------------------------------------
\* Exceptions
\* ------------------------------------------------------------------------

\* exceptions.py: RDWError and its subclasses.
RDWErrors ==
    {"RDWError", "RDWUnknownLicensePlateError", "RDWConnectionError"}

Pending == [kind |-> "pending"]
Return(v) == [kind |-> "return", value |-> v]
Raise(type, args) == [kind |-> "raise", type |-> type, args |-> args]

\* ------------------------------------------------------------------------
\* RDW: the client
\* ------------------------------------------------------------------------

NoSession == "None"
CallerSession == "caller session"
OwnSession == "own session"

VARIABLES
    session,         \* RDW.session
    license_plate,   \* RDW.license_plate, the default plate
    close_session,   \* RDW._close_session
    scope,           \* "entered" inside async with, "exited" after __aexit__
    closed,          \* the sessions on which close() was awaited
    created,         \* number of ClientSession objects the client created
    requests,        \* number of HTTP requests issued
    calls,           \* number of vehicle() calls made
    call             \* the latest vehicle() call

VARIABLES
    nStage, nIn, nOut, nOut2     \* a run of normalize_license_plate

VARIABLES
    mStage, mIn, mOut            \* a run of Vehicle.from_dict

VARIABLES
    tasks            \* the concurrent vehicle() calls, one per task

VARIABLES
    rStage,          \* a run of to_dict followed by from_dict
    rIn,             \* the Vehicle serialized
    rPadded,         \* whether strftime pads years below 1000
    rDict,           \* the result of to_dict
    rOut             \* the result of from_dict

clientVars ==
    <<session, license_plate, close_session, scope, closed, created, requests,
      calls, call>>
normVars == <<nStage, nIn, nOut, nOut2>>
mapVars == <<mStage, mIn, mOut>>
roundVars == <<rStage, rIn, rPadded, rDict, rOut>>
vars == <<clientVars, normVars, mapVars, roundVars, tasks>>

\* A vehicle() call that has not been made.
NoCall ==
    [pc |-> "idle", arg |-> PyNone, query |-> PyNone, elapsed |-> FALSE,
     awaits |-> 0, issued |-> 0, createdSession |-> FALSE, used |-> NoSession,
     status |-> 0, headers |-> <<>>, read |-> FALSE, text |-> "",
     decoded |-> FALSE, failure |-> "none", outcome |-> Pending]

\* vehicle(), line 132: license_plate or self.license_plate.  None and the
\* empty string are falsy.
ResolvePlate_wrong(arg, default) ==
    IF arg # PyNone /\ arg # PyStr(<<>>) THEN arg
    ELSE IF default # PyNone THEN default
    ELSE PyStr(<<>>)

ResolvePlate(arg, default) ==
    IF arg # PyNone /\ arg # PyStr(<<>>) THEN arg ELSE default

\* response.headers.get("Content-Type", "").
content_type_of(headers) ==
    IF "Content-Type" \in DOMAIN headers THEN headers["Content-Type"] ELSE <<>>

\* "application/json" in content_type.
IsJson_wrong(content_type) ==
    content_type = <<>> \/ \E i \in DOMAIN content_type :
                              content_type[i] = "application/json"

IsJson(content_type) ==
    \E i \in DOMAIN content_type : content_type[i] = "application/json"

\* response.raise_for_status() raises ClientResponseError.
RaisesForStatus(status) == status >= 400

\* not vehicles: None, an empty array and an empty object are falsy.
Falsy_wrong(value) == value.t = "null"

Falsy(value) ==
    \/ value.t = "null"
    \/ value.t = "array" /\ value.items = <<>>
    \/ value.t = "object" /\ DOMAIN value.members = {}

\* vehicles[0]: the first element of an array (IndexError when it has none);
\* an object has no key 0.
First_wrong(value) ==
    IF value.t # "array" THEN Err("KeyError")
    ELSE IF value.items = <<>> THEN Err("IndexError")
    ELSE Ok(value.items[Len(value.items)])

First(value) ==
    IF value.t # "array" THEN Err("KeyError")
    ELSE IF value.items = <<>> THEN Err("IndexError")
    ELSE Ok(value.items[1])

\* close(), line 151: self.session and self._close_session.
ShouldClose_wrong(s, flag) == s # NoSession

ShouldClose(s, flag) == s # NoSession /\ flag

\* What _request and vehicle do with the body once it is read (lines 104-113
\* and 142-147): the outcome of the call and whether the body was decoded.
Classify(headers, text) ==
    LET content_type == content_type_of(headers) IN
    IF ~IsJson(content_type)
    THEN [decoded |-> FALSE,
          outcome |-> Raise("RDWError",
                        <<"Unexpected response from the Socrata API",
                          [content_type |-> content_type, response |-> text]>>)]
    ELSE LET vehicles == orjson_loads(text) IN
         IF ~vehicles.ok
         THEN [decoded |-> TRUE, outcome |-> Raise(vehicles.error, <<>>)]
         ELSE IF Falsy(vehicles.v)
         THEN [decoded |-> TRUE,
               outcome |-> Raise("RDWUnknownLicensePlateError",
                                 <<"License plate not found">>)]
         ELSE IF ~First(vehicles.v).ok
         THEN [decoded |-> TRUE,
               outcome |-> Raise(First(vehicles.v).error, <<>>)]
         ELSE LET v == from_dict(First(vehicles.v).v) IN
              IF v.ok THEN [decoded |-> TRUE, outcome |-> Return(v.v)]
              ELSE [decoded |-> TRUE, outcome |-> Raise(v.error, <<>>)]

ClientInit ==
    /\ session \in {NoSession, CallerSession}
    /\ license_plate \in PlateValues
    /\ close_session = FALSE
    /\ scope = "entered"
    /\ closed = {}
    /\ created = 0
    /\ requests = 0
    /\ calls = 0
    /\ call = NoCall

NormIdle == nStage = "off" /\ nIn = <<>> /\ nOut = <<>> /\ nOut2 = <<>>
MapIdle == mStage = "off" /\ mIn = <<>> /\ mOut = Err("none")
\* A task that has not called vehicle().
NoTask == [pc |-> "idle", used |-> NoSession, outcome |-> "pending"]

Tasks == 1..MaxTasks

TasksIdle == tasks = [t \in Tasks |-> NoTask]

RoundIdle ==
    /\ rStage = "off" /\ rIn = <<>> /\ rPadded = TRUE /\ rDict = <<>>
    /\ rOut = Err("none")

\* vehicle(license_plate), up to the first await: the plate is resolved; with
\* none the call raises; otherwise _request creates the session when there is
\* none and issues the GET under the timeout.
Vehicle(arg) ==
    /\ scope = "entered"
    /\ call.pc \in {"idle", "done"}
    /\ calls < MaxCalls
    /\ calls' = calls + 1
    /\ LET plate == ResolvePlate(arg, license_plate) IN
       IF plate = PyNone
       THEN /\ call' = [NoCall EXCEPT !.pc = "done", !.arg = arg,
                          !.outcome = Raise("RDWError",
                                            <<"No license plate provided">>)]
            /\ UNCHANGED <<session, close_session, created, requests>>
       ELSE /\ session' = IF session = NoSession THEN OwnSession ELSE session
            /\ close_session' = IF session = NoSession THEN TRUE
                                ELSE close_session
            /\ created' = IF session = NoSession THEN created + 1 ELSE created
            /\ requests' = requests + 1
            /\ call' = [NoCall EXCEPT !.pc = "awaitRequest", !.arg = arg,
                          !.query = PyStr(normalize_license_plate(plate.v)),
                          !.awaits = 1, !.issued = 1,
                          !.createdSession = (session = NoSession),
                          !.used = session']
    /\ UNCHANGED <<license_plate, scope, closed>>

Done(outcome) == [call EXCEPT !.pc = "done", !.outcome = outcome]

\* Line 93: the timeout expires while the response is awaited.
TimeoutExpires ==
    /\ call.pc = "awaitRequest"
    /\ call' = [Done(Raise("RDWConnectionError",
                  <<"Timeout occurred while connecting to the Socrata API">>))
                EXCEPT !.elapsed = TRUE]
    /\ UNCHANGED <<session, license_plate, close_session, scope, closed,
                   created, requests, calls>>

\* Lines 96-102: the request fails in the transport.
RequestFails(failure) ==
    /\ call.pc = "awaitRequest"
    /\ call' = [Done(Raise("RDWConnectionError",
                  <<"Error occurred while communicating with Socrata API">>))
                EXCEPT !.failure = failure]
    /\ UNCHANGED <<session, license_plate, close_session, scope, closed,
                   created, requests, calls>>

\* Lines 87-92 and 104-105: the response (status and headers) arrives within
\* the timeout; raise_for_status() raises for an error status, otherwise the
\* timeout block is left and the body is awaited.
ResponseArrives(status, headers) ==
    /\ call.pc = "awaitRequest"
    /\ IF RaisesForStatus(status)
       THEN call' = [Done(Raise("RDWConnectionError",
                       <<"Error occurred while communicating with Socrata API">>))
                     EXCEPT !.status = status, !.headers = headers,
                            !.failure = "ClientResponseError"]
       ELSE call' = [call EXCEPT !.pc = "awaitText", !.status = status,
                                 !.headers = headers, !.awaits = 2]
    /\ UNCHANGED <<session, license_plate, close_session, scope, closed,
                   created, requests, calls>>

\* The request_timeout passes while the body is awaited (line 105): the
\* timeout block of line 86 has been left, nothing is raised.
DeadlinePasses ==
    /\ call.pc = "awaitText"
    /\ ~call.elapsed
    /\ call' = [call EXCEPT !.elapsed = TRUE]
    /\ UNCHANGED <<session, license_plate, close_session, scope, closed,
                   created, requests, calls>>

\* Line 105: reading the body fails in the transport; the await is outside
\* the try block, the exception reaches the caller as raised.
BodyFails(failure) ==
    /\ call.pc = "awaitText"
    /\ call' = [Done(Raise(failure, <<>>)) EXCEPT !.failure = failure]
    /\ UNCHANGED <<session, license_plate, close_session, scope, closed,
                   created, requests, calls>>

\* Lines 105-113 and 142-147: the body arrives and the call completes.
BodyArrives(text) ==
    /\ call.pc = "awaitText"
    /\ call' = [call EXCEPT !.pc = "done", !.read = TRUE, !.text = text,
                            !.decoded = Classify(call.headers, text).decoded,
                            !.outcome = Classify(call.headers, text).outcome]
    /\ UNCHANGED <<session, license_plate, close_session, scope, closed,
                   created, requests, calls>>

\* The caller cancels the task while the call is suspended.
Cancel ==
    /\ call.pc \in {"awaitRequest", "awaitText"}
    /\ call' = Done(Raise("CancelledError", <<>>))
    /\ UNCHANGED <<session, license_plate, close_session, scope, closed,
                   created, requests, calls>>

\* __aexit__ -> close(): the session is closed when there is one and the
\* client owns it.
AExit ==
    /\ scope = "entered"
    /\ call.pc \in {"idle", "done"}
    /\ scope' = "exited"
    /\ closed' = IF ShouldClose(session, close_session)
                 THEN closed \cup {session} ELSE closed
    /\ UNCHANGED <<session, license_plate, close_session, created, requests,
                   calls, call>>

\* The client variables in the runs of the pure functions.
ClientOff ==
    /\ session = NoSession
    /\ license_plate = PyNone
    /\ close_session = FALSE
    /\ scope = "off"
    /\ closed = {}
    /\ created = 0
    /\ requests = 0
    /\ calls = 0
    /\ call = NoCall

Init == ClientInit /\ NormIdle /\ MapIdle /\ RoundIdle /\ TasksIdle

Next ==
    \/ (\E arg \in PlateValues : Vehicle(arg)) /\ UNCHANGED <<normVars, mapVars, roundVars, tasks>>
    \/ TimeoutExpires /\ UNCHANGED <<normVars, mapVars, roundVars, tasks>>
    \/ (\E f \in RequestFailures : RequestFails(f))
          /\ UNCHANGED <<normVars, mapVars, roundVars, tasks>>
    \/ (\E st \in Statuses, h \in HeaderSets : ResponseArrives(st, h))
          /\ UNCHANGED <<normVars, mapVars, roundVars, tasks>>
    \/ DeadlinePasses /\ UNCHANGED <<normVars, mapVars, roundVars, tasks>>
    \/ (\E f \in BodyFailures : BodyFails(f)) /\ UNCHANGED <<normVars, mapVars, roundVars, tasks>>
    \/ (\E text \in Texts : BodyArrives(text)) /\ UNCHANGED <<normVars, mapVars, roundVars, tasks>>
    \/ Cancel /\ UNCHANGED <<normVars, mapVars, roundVars, tasks>>
    \/ AExit /\ UNCHANGED <<normVars, mapVars, roundVars, tasks>>

Spec == Init /\ [][Next]_vars

\* ------------------------------------------------------------------------
\* Runs of normalize_license_plate on every string up to MaxLen
\* ------------------------------------------------------------------------

NormInit ==
    /\ ClientOff
    /\ MapIdle
    /\ RoundIdle
    /\ TasksIdle
    /\ nStage = "input"
    /\ nIn \in StringsUpTo(MaxLen)
    /\ nOut = <<>>
    /\ nOut2 = <<>>

Normalize ==
    /\ nStage = "input"
    /\ nOut' = normalize_license_plate(nIn)
    /\ nStage' = "once"
    /\ UNCHANGED <<nIn, nOut2, clientVars, tasks, mapVars, roundVars>>

NormalizeAgain ==
    /\ nStage = "once"
    /\ nOut2' = normalize_license_plate(nOut)
    /\ nStage' = "twice"
    /\ UNCHANGED <<nIn, nOut, clientVars, tasks, mapVars, roundVars>>

NormNext == Normalize \/ NormalizeAgain

SpecNorm == NormInit /\ [][NormNext]_vars

\* ------------------------------------------------------------------------
\* Runs of Vehicle.from_dict on source objects
\* ------------------------------------------------------------------------

Absent == [t |-> "absent"]

BoolKeys == {Alias[a] : a \in BoolAttrs}

\* What a boolean source key holds: nothing (absent), null, or a string.
BoolSources == {Absent, JNull, JStr("Ja"), JStr("Nee"), JStr("ja")}

RequiredPart ==
    ("merk" :> JStr(<<"a", "B">>))
    @@ ("handelsbenaming" :> JStr(<<"B">>))
    @@ ("kenteken" :> JStr(<<"1", "B">>))

\* The source object holding the required keys and, of the boolean keys, the
\* ones f does not leave absent.
WithBools(f) ==
    [k \in {b \in BoolKeys : f[b] # Absent} |-> f[k]] @@ RequiredPart

MapInputs ==
    {WithBools(f) : f \in [BoolKeys -> BoolSources]}
    \cup {VehicleA, VehicleB, NoBrand, BadDate}

MapInit ==
    /\ ClientOff
    /\ NormIdle
    /\ RoundIdle
    /\ TasksIdle
    /\ mStage = "input"
    /\ mIn \in MapInputs
    /\ mOut = Err("none")

Deserialize ==
    /\ mStage = "input"
    /\ mOut' = from_dict(mIn)
    /\ mStage' = "mapped"
    /\ UNCHANGED <<mIn, clientVars, tasks, normVars, roundVars>>

MapNext == Deserialize

SpecMap == MapInit /\ [][MapNext]_vars

\* ------------------------------------------------------------------------
\* Runs of Vehicle.to_dict followed by Vehicle.from_dict
\* ------------------------------------------------------------------------

\* A Vehicle with every optional field None.
BareVehicle(brand, model) ==
    [a \in Attrs |->
        CASE a = "brand" -> PyStr(brand)
          [] a = "model" -> PyStr(model)
          [] a = "license_plate" -> PyStr(<<"1", "B">>)
          [] OTHER -> PyNone]

\* The Vehicle records serialized: brand and model in and out of stripped
\* title case, and each type of optional field None or set.
RoundInputs ==
    {[BareVehicle(brand, model) EXCEPT
         !.apk_expiration = apk, !.taxi = taxi, !.exported = exported,
         !.engine_capacity = capacity, !.vehicle_type = type,
         !.energy_label = label] :
       brand \in {<<"A", "b">>, <<"B", "B">>, <<" ", "A">>},
       model \in {<<"B">>, <<"a", " ", "B">>},
       apk \in {PyNone, PyDate(<<2022, 1, 4>>), PyDate(<<999, 1, 4>>)},
       taxi \in {PyNone, PyBool(TRUE), PyBool(FALSE)},
       exported \in {PyNone, PyBool(TRUE)},
       capacity \in {PyNone, PyInt(999)},
       type \in {PyNone, PyEnum("Personenauto")},
       label \in {PyNone, PyStr(<<"B">>)}}

RoundInit ==
    /\ ClientOff
    /\ NormIdle
    /\ MapIdle
    /\ TasksIdle
    /\ rStage = "input"
    /\ rIn \in RoundInputs
    /\ rPadded \in BOOLEAN
    /\ rDict = <<>>
    /\ rOut = Err("none")

Serialize ==
    /\ rStage = "input"
    /\ rDict' = to_dict(rIn, rPadded)
    /\ rStage' = "encoded"
    /\ UNCHANGED <<rIn, rPadded, rOut, clientVars, tasks, normVars, mapVars>>

DeserializeBack ==
    /\ rStage = "encoded"
    /\ rOut' = from_dict(rDict)
    /\ rStage' = "decoded"
    /\ UNCHANGED <<rIn, rPadded, rDict, clientVars, tasks, normVars, mapVars>>

RoundNext == Serialize \/ DeserializeBack

SpecRound == RoundInit /\ [][RoundNext]_vars

\* ------------------------------------------------------------------------
\* Concurrent vehicle() calls on one client constructed without a session
\* ------------------------------------------------------------------------

AnotherOwnSession == "another own session"

\* ClientSession(): a new session object at every call.
FreshSession(n) == IF n = 0 THEN OwnSession ELSE AnotherOwnSession

\* A plausible slip: the session is created without the check.
NeedsSession_wrong(s) == TRUE

\* _request, line 81: self.session is None.
NeedsSession(s) == s = NoSession

ConcInit ==
    /\ session = NoSession
    /\ license_plate \in PlateValues
    /\ close_session = FALSE
    /\ scope = "entered"
    /\ closed = {}
    /\ created = 0
    /\ requests = 0
    /\ calls = 0
    /\ call = NoCall
    /\ TasksIdle
    /\ NormIdle
    /\ MapIdle
    /\ RoundIdle

\* Task t runs vehicle(arg) up to its first await (lines 132-140 and 71-87):
\* no await separates the check of self.session from the assignments, so the
\* step is one action.
TaskStart(t, arg) ==
    /\ scope = "entered"
    /\ tasks[t].pc = "idle"
    /\ LET plate == ResolvePlate(arg, license_plate) IN
       IF plate = PyNone
       THEN /\ tasks' = [tasks EXCEPT ![t] =
                           [NoTask EXCEPT !.pc = "done", !.outcome = "RDWError"]]
            /\ UNCHANGED <<session, close_session, created, requests>>
       ELSE /\ session' = IF NeedsSession(session) THEN FreshSession(created)
                          ELSE session
            /\ close_session' = IF NeedsSession(session) THEN TRUE
                                ELSE close_session
            /\ created' = IF NeedsSession(session) THEN created + 1
                          ELSE created
            /\ requests' = requests + 1
            /\ tasks' = [tasks EXCEPT ![t] =
                           [NoTask EXCEPT !.pc = "awaitRequest",
                                          !.used = session']]
    /\ UNCHANGED <<license_plate, scope, closed, calls, call>>

\* The await of line 87 ends for task t: with the response (the body is then
\* awaited, line 105) or with RDWConnectionError (lines 93-102).
TaskRequestEnds(t, ok) ==
    /\ tasks[t].pc = "awaitRequest"
    /\ tasks' = [tasks EXCEPT ![t] =
                   IF ok THEN [@ EXCEPT !.pc = "awaitText"]
                   ELSE [@ EXCEPT !.pc = "done",
                                  !.outcome = "RDWConnectionError"]]
    /\ UNCHANGED clientVars

\* The await of line 105 ends for task t and the call returns or raises.
TaskBodyEnds(t, outcome) ==
    /\ tasks[t].pc = "awaitText"
    /\ tasks' = [tasks EXCEPT ![t] = [@ EXCEPT !.pc = "done",
                                               !.outcome = outcome]]
    /\ UNCHANGED clientVars

\* Task t is cancelled while it is suspended.
TaskCancel(t) ==
    /\ tasks[t].pc \in {"awaitRequest", "awaitText"}
    /\ tasks' = [tasks EXCEPT ![t] = [@ EXCEPT !.pc = "done",
                                               !.outcome = "CancelledError"]]
    /\ UNCHANGED clientVars

\* close(), from __aexit__, whatever the tasks are doing.
Close ==
    /\ scope = "entered"
    /\ scope' = "exited"
    /\ closed' = IF ShouldClose(session, close_session)
                 THEN closed \cup {session} ELSE closed
    /\ UNCHANGED <<session, license_plate, close_session, created, requests,
                   calls, call, tasks>>

ConcNext ==
    \/ (\E t \in Tasks, arg \in PlateValues : TaskStart(t, arg))
          /\ UNCHANGED <<normVars, mapVars, roundVars>>
    \/ (\E t \in Tasks, ok \in BOOLEAN : TaskRequestEnds(t, ok))
          /\ UNCHANGED <<normVars, mapVars, roundVars>>
    \/ (\E t \in Tasks, o \in {"Vehicle", "RDWError",
                               "RDWUnknownLicensePlateError"} :
            TaskBodyEnds(t, o))
          /\ UNCHANGED <<normVars, mapVars, roundVars>>
    \/ (\E t \in Tasks : TaskCancel(t))
          /\ UNCHANGED <<normVars, mapVars, roundVars>>
    \/ Close /\ UNCHANGED <<normVars, mapVars, roundVars>>

SpecConc == ConcInit /\ [][ConcNext]_vars

\* ------------------------------------------------------------------------
\* Claims
\* ------------------------------------------------------------------------

CallDone == call.pc = "done"

Raised(type) == call.outcome.kind = "raise" /\ call.outcome.type = type

\* The response of the call was received with a 2xx status and its body read.
GotBody == CallDone /\ call.read /\ call.status \in 200..299

\* The Content-Type of the response names JSON as its media type.
IndicatesJson(headers) ==
    /\ "Content-Type" \in DOMAIN headers
    /\ headers["Content-Type"] # <<>>
    /\ headers["Content-Type"][1] = "application/json"

\* C1: a vehicle() call with no plate argument on a client with no default
\* plate raises RDWError("No license plate provided") without suspending,
\* without issuing a request and without creating a session.
C1_NoPlateNoNetwork ==
    (CallDone /\ call.arg = PyNone /\ license_plate = PyNone)
        => /\ call.outcome = Raise("RDWError", <<"No license plate provided">>)
           /\ call.issued = 0
           /\ call.awaits = 0
           /\ ~call.createdSession
           /\ call.used = NoSession

C1_Witness ==
    /\ CallDone /\ call.arg = PyNone /\ license_plate = PyNone
    /\ Raised("RDWError")
    /\ calls = 1 /\ requests = 0 /\ session = NoSession

\* C2: the call suspends only while the response is awaited under the
\* timeout, so a call over which the timeout elapsed while it was pending
\* ends with RDWConnectionError and returns no Vehicle.  (Stated for the
\* calls whose transport did not fail and that the caller did not cancel.)
C2_TimeoutBoundsCall ==
    (CallDone /\ call.elapsed /\ call.failure = "none"
       /\ ~Raised("CancelledError"))
        => /\ call.awaits = 1
           /\ Raised("RDWConnectionError")

\* C3: every transport-level failure of the request (DNS, connection failure
\* or reset, error status) makes the call raise RDWConnectionError.
C3_TransportFailureIsConnectionError ==
    (CallDone /\ call.failure # "none") => Raised("RDWConnectionError")

\* C4: a 2xx response whose Content-Type does not indicate JSON (or is
\* missing) raises plain RDWError carrying the observed content type and the
\* raw body, and the body is not JSON-decoded.
C4_UnexpectedResponse ==
    (GotBody /\ ~IndicatesJson(call.headers))
        => /\ call.outcome =
                Raise("RDWError",
                      <<"Unexpected response from the Socrata API",
                        [content_type |-> content_type_of(call.headers),
                         response |-> call.text]>>)
           /\ call.outcome.type \notin
                {"RDWConnectionError", "RDWUnknownLicensePlateError"}
           /\ ~call.decoded

C4_Witness ==
    /\ GotBody /\ call.headers = <<>> /\ call.text = "[A]"
    /\ Raised("RDWError") /\ ~call.decoded

\* C5: a 2xx JSON response whose body decodes to the empty array raises
\* RDWUnknownLicensePlateError; no Vehicle is returned.
C5_EmptyArrayIsNotFound ==
    (GotBody /\ IndicatesJson(call.headers)
       /\ orjson_loads(call.text) = Ok(JArray(<<>>)))
        => Raised("RDWUnknownLicensePlateError")

C5_Witness ==
    /\ GotBody /\ IndicatesJson(call.headers) /\ call.text = "[]"
    /\ Raised("RDWUnknownLicensePlateError")

\* The response is a 2xx JSON response whose body decodes to a non-empty
\* array.
NonEmptyArrayResponse ==
    /\ GotBody
    /\ IndicatesJson(call.headers)
    /\ orjson_loads(call.text).ok
    /\ orjson_loads(call.text).v.t = "array"
    /\ orjson_loads(call.text).v.items # <<>>

C7_ClosesOnlyOwnSession ==
    /\ CallerSession \notin closed
    /\ scope = "exited" =>
          /\ (created > 0 <=> OwnSession \in closed)
          /\ (closed # {} <=> close_session)
          /\ closed \subseteq {session}

C7_Witness ==
    /\ scope = "exited" /\ created = 1 /\ closed = {OwnSession}
    /\ calls = MaxCalls /\ Raised("CancelledError")

\* C8: normalize_license_plate is idempotent.
C8_Idempotent == nStage = "twice" => nOut2 = nOut

C8_Witness ==
    nStage = "twice" /\ nIn = <<" ", "a", "-">> /\ nOut = <<"A">> /\ nOut2 = nOut

\* The input uppercased with every hyphen and every whitespace character
\* removed.
RECURSIVE WithoutAll(_, _)
WithoutAll(s, drop) ==
    IF s = <<>> THEN <<>>
    ELSE IF Head(s) \in drop THEN WithoutAll(Tail(s), drop)
    ELSE <<Head(s)>> \o WithoutAll(Tail(s), drop)

\* C9: the result of normalize_license_plate is the input uppercased with
\* every hyphen and every whitespace character removed; it holds no hyphen,
\* no whitespace character and no lowercase letter.
C9_RemovesAllWhitespace ==
    nStage # "input" =>
        /\ nOut = WithoutAll(Upper(nIn), {"-"} \cup Whitespace)
        /\ \A i \in DOMAIN nOut :
              nOut[i] \notin ({"-"} \cup Whitespace \cup Lowercase)

\* C10 as stated: each boolean field is true exactly when the source value
\* is "Ja" and false otherwise, an absent key included.
C10_AbsentIsFalse ==
    (mStage = "mapped" /\ mOut.ok) =>
        \A a \in BoolAttrs :
            mOut.v[a] = PyBool(Alias[a] \in DOMAIN mIn
                               /\ mIn[Alias[a]] = JStr("Ja"))

\* C10 as amended: each boolean field is true exactly when the source value
\* is "Ja", false for every other source value that is present and not null,
\* and None when the source key is absent or null.
C10_BooleanMapping ==
    (mStage = "mapped" /\ mOut.ok) =>
        \A a \in BoolAttrs :
            IF Alias[a] \notin DOMAIN mIn \/ mIn[Alias[a]] = JNull
            THEN mOut.v[a] = PyNone
            ELSE mOut.v[a] = PyBool(mIn[Alias[a]] = JStr("Ja"))

C10_Witness ==
    /\ mStage = "mapped" /\ mOut.ok
    /\ DOMAIN mIn \cap BoolKeys = BoolKeys \ {"taxi_indicator"}
    /\ mOut.v["taxi"] = PyNone
    /\ mIn["openstaande_terugroepactie_indicator"] = JNull
    /\ mOut.v["pending_recall"] = PyNone
    /\ mIn["export_indicator"] = JStr("Ja") /\ mOut.v["exported"] = PyBool(TRUE)
    /\ mIn["wam_verzekerd"] = JStr("ja")
    /\ mOut.v["liability_insured"] = PyBool(FALSE)
    /\ mIn["tenaamstellen_mogelijk"] = JStr("Nee")
    /\ mOut.v["ascription_possible"] = PyBool(FALSE)

\* The string is what __pre_deserialize__ makes of it: stripped, title-cased.
Pretty(str) == Title(Strip(str)) = str

FourDigitYears(vehicle) ==
    \A a \in DateAttrs :
        vehicle[a].t = "date" => vehicle[a].v[1] \in 1000..9999

\* C11 as stated: for every Vehicle, to_dict followed by from_dict yields a
\* record equal to it.
C11_RoundTripAll == rStage = "decoded" => rOut = Ok(rIn)

\* C11 as amended: for every Vehicle whose brand and model are already
\* stripped and title-cased and whose dates have four-digit years, to_dict
\* followed by from_dict yields a record equal to it.
C11_RoundTripPretty ==
    (rStage = "decoded" /\ Pretty(rIn.brand.v) /\ Pretty(rIn.model.v)
       /\ FourDigitYears(rIn))
        => rOut = Ok(rIn)

C11_Witness ==
    /\ rStage = "decoded" /\ rOut = Ok(rIn)
    /\ rIn.brand.v = <<"A", "b">>
    /\ rIn.apk_expiration = PyDate(<<2022, 1, 4>>)
    /\ rDict["vervaldatum_apk"] = JStr("20220104")
    /\ rIn.taxi = PyBool(FALSE) /\ rDict["taxi_indicator"] = JStr("Nee")
    /\ rIn.exported = PyBool(TRUE) /\ rDict["export_indicator"] = JStr("Ja")
    /\ rIn.engine_capacity = PyInt(999)
    /\ rIn.vehicle_type = PyEnum("Personenauto")

\* C12: a call to vehicle() that does not return a Vehicle ends with RDWError
\* or one of its subclasses; no other error reaches the caller.  (Stated for
\* the calls whose transport did not fail and that the caller did not
\* cancel.)
C12_OnlyRDWErrors ==
    (CallDone /\ call.outcome.kind = "raise" /\ call.failure = "none"
       /\ ~Raised("CancelledError"))
        => call.outcome.type \in RDWErrors

\* The tasks that got as far as issuing their request.
Requested == {t \in Tasks : tasks[t].used # NoSession}

\* C13: whatever the interleaving of the concurrent calls, at most one session
\* is created, every call that issues a request uses it, the ownership flag
\* is set with it, and after close() the created session is closed.
C13_OneSharedSession ==
    /\ created <= 1
    /\ created = Cardinality({OwnSession} \cap {session})
    /\ \A t \in Tasks :
          tasks[t].pc \in {"awaitRequest", "awaitText"} => t \in Requested
    /\ \A t \in Requested : tasks[t].used = OwnSession /\ session = OwnSession
    /\ created > 0 => close_session
    /\ scope = "exited" => (created > 0 => closed = {OwnSession})

C13_Witness ==
    /\ scope = "exited" /\ created = 1 /\ closed = {OwnSession}
    /\ \A t \in Tasks : tasks[t].pc = "done" /\ tasks[t].used = OwnSession
    /\ requests = MaxTasks
    /\ tasks[1].outcome = "Vehicle" /\ tasks[2].outcome = "CancelledError"

====
